---- MODULE Spec2Model ----
(***************************************************************************)
(* Fair & Adaptive AI Interview System (src/main.py).                      *)
(*                                                                         *)
(* The program is one Streamlit script.  Every user interaction (a button  *)
(* click, an edit of an answer field, a change of a sidebar widget)        *)
(* re-executes the script from line 1 to line 181 with the widget values   *)
(* of that interaction; st.session_state and the file results.csv survive  *)
(* from one execution to the next.  Each action below is one complete      *)
(* execution of the script for one kind of interaction.                    *)
(***************************************************************************)
EXTENDS Integers, Sequences, FiniteSets, TLC

VARIABLES
    hasKey,               \* os.getenv("GROQ_API_KEY") is set (line 14)
    candidate_name,       \* sidebar text input (line 27)
    candidate_gender,     \* sidebar selectbox (line 28)
    candidate_experience, \* sidebar selectbox (line 29)
    job_role,             \* sidebar text input (line 30)
    resume_text,          \* sidebar text area (line 31), a sequence of words
    questions,            \* st.session_state.questions
    answers,              \* st.session_state.answers
    score,                \* st.session_state.score
    results_csv,          \* rows of the file results.csv, <<>> when absent
    df,                   \* the frame shown by the last execution (line 139)
    outcome,              \* what the tab-1 handler of the last execution showed
    feedback,             \* feedback text written by the last execution
    tabs,                 \* the tabs the last execution rendered
    group_sr,             \* selection rate per gender shown by the last execution
    air,                  \* adverse impact ratio per gender shown by it
    bias,                 \* genders it warned about ("Potential bias detected")
    G,                    \* the skills graph it drew
    analyzed              \* number of analyze actions that completed so far

vars == <<hasKey, candidate_name, candidate_gender, candidate_experience,
          job_role, resume_text, questions, answers, score, results_csv,
          df, outcome, feedback, tabs, group_sr, air, bias, G, analyzed>>

sidebar == <<candidate_name, candidate_gender, candidate_experience,
             job_role, resume_text>>

session == <<questions, answers, score>>

-----------------------------------------------------------------------------
(* Bounds *)

MaxRows == 2      \* rows results.csv may hold before executions that append stop
MaxLines == 1     \* lines of a question-generation response
MaxLen == 3       \* characters of an analysis response (ScoreSpec)
MaxTokens == 3    \* words of a resume (GraphSpec)

-----------------------------------------------------------------------------
(* Values *)

\* st.session_state.score = None.  The extractor parses \d+, so it never
\* yields a negative number and -1 is free to stand for None.
None == -1

DefaultScore == 75
PassMark == 70

NL == "\n"
Whitespace == {" ", NL}
Digits == {"0", "1", "2", "3", "4", "5", "6", "7", "8", "9"}

DigitVal(c) ==
    CASE c = "0" -> 0 [] c = "1" -> 1 [] c = "2" -> 2 [] c = "3" -> 3
      [] c = "4" -> 4 [] c = "5" -> 5 [] c = "6" -> 6 [] c = "7" -> 7
      [] c = "8" -> 8 [] c = "9" -> 9

\* All sequences over S of length at most n.
SeqsUpTo(S, n) == UNION {[1..k -> S] : k \in 0..n}

-----------------------------------------------------------------------------
(* Tab 1: question extraction (line 76) *)

\* A response of the model is a sequence of lines; a line either has the
\* form "<number>. <text>" (numbered, body = <text>) or it has not.
\* re.findall(r'\d+\.\s+(.*)', text) returns the bodies of the numbered
\* lines in order and drops the others.
RECURSIVE FindQuestions(_)
FindQuestions(text) ==
    IF text = <<>> THEN <<>>
    ELSE IF Head(text).numbered
         THEN <<Head(text).body>> \o FindQuestions(Tail(text))
         ELSE FindQuestions(Tail(text))

\* [""] * len(questions)  (line 77)
EmptyAnswers(qs) == [i \in 1..Len(qs) |-> ""]

-----------------------------------------------------------------------------
(* Tab 1: score extraction (lines 105-106) *)

\* str.strip(): remove leading and trailing whitespace.
RECURSIVE LStrip(_)
LStrip(s) ==
    IF s # <<>> /\ Head(s) \in Whitespace THEN LStrip(Tail(s)) ELSE s

RECURSIVE RStrip(_)
RStrip(s) ==
    IF s # <<>> /\ s[Len(s)] \in Whitespace
    THEN RStrip(SubSeq(s, 1, Len(s) - 1)) ELSE s

Strip(s) == RStrip(LStrip(s))

\* feedback.split("\n")[0]
RECURSIVE FirstLine(_)
FirstLine(s) ==
    IF s = <<>> \/ Head(s) = NL THEN <<>>
    ELSE <<Head(s)>> \o FirstLine(Tail(s))

\* The longest prefix of s made of digits (the greedy \d+ at a position).
RECURSIVE DigitPrefix(_)
DigitPrefix(s) ==
    IF s = <<>> \/ Head(s) \notin Digits THEN <<>>
    ELSE <<Head(s)>> \o DigitPrefix(Tail(s))

\* re.search(r'(\d+)', line): the leftmost match, <<>> standing for no match.
RECURSIVE SearchDigits(_)
SearchDigits(line) ==
    IF line = <<>> THEN <<>>
    ELSE IF Head(line) \in Digits THEN DigitPrefix(line)
         ELSE SearchDigits(Tail(line))

\* int(digits)
RECURSIVE IntOf(_)
IntOf(ds) ==
    IF ds = <<>> THEN 0
    ELSE 10 * IntOf(SubSeq(ds, 1, Len(ds) - 1)) + DigitVal(ds[Len(ds)])

\* The extraction with the search run over the whole feedback instead of
\* its first line.
ExtractScore_AnyLine(fb) ==
    LET m == SearchDigits(fb)
    IN  IF m # <<>> THEN IntOf(m) ELSE DefaultScore

\* int(re.search(...).group(1)) if re.search(...) else 75
ExtractScore(fb) ==
    LET m == SearchDigits(FirstLine(fb))
    IN  IF m # <<>> THEN IntOf(m) ELSE DefaultScore

-----------------------------------------------------------------------------
(* Tab 2: the result store (lines 120-135) *)

\* What pandas holds for a missing value.
NaN == "float('nan')"

\* Strings read_csv takes for a missing value (pandas' default na_values).
NaStrings == {"", "#N/A", "N/A", "NA", "NULL", "NaN", "None", "n/a", "nan", "null"}

\* The flag with a strict comparison, which leaves a score of exactly 70 out.
Selected_Strict(sc) == IF sc > PassMark THEN 1 ELSE 0

\* "Selected": 1 if st.session_state.score >= 70 else 0
Selected(sc) == IF sc >= PassMark THEN 1 ELSE 0

NewData(nm, gd, ex, jr, sc) ==
    [Name |-> nm, Gender |-> gd, Experience |-> ex, JobRole |-> jr,
     Score |-> sc, Selected |-> Selected(sc)]

\* pd.read_csv on one text cell / one row / the file.  The integer columns
\* Score and Selected are written in decimal and parsed back to the same
\* integers.
ParseCell(c) == IF c \in NaStrings THEN NaN ELSE c

ReadRow(r) ==
    [Name |-> ParseCell(r.Name), Gender |-> ParseCell(r.Gender),
     Experience |-> ParseCell(r.Experience), JobRole |-> ParseCell(r.JobRole),
     Score |-> r.Score, Selected |-> r.Selected]

ReadCsv(file) == [i \in DOMAIN file |-> ReadRow(file[i])]

\* df.to_csv(index=False): a missing value is written as the empty cell.
FormatCell(v) == IF v = NaN THEN "" ELSE v

WriteRow(r) ==
    [Name |-> FormatCell(r.Name), Gender |-> FormatCell(r.Gender),
     Experience |-> FormatCell(r.Experience), JobRole |-> FormatCell(r.JobRole),
     Score |-> r.Score, Selected |-> r.Selected]

ToCsv(frame) == [i \in DOMAIN frame |-> WriteRow(frame[i])]

\* Lines 129-133.  The file exists exactly when it has rows: the program
\* never writes a frame without a row.
Concat(file, new) ==
    IF file # <<>> THEN ReadCsv(file) \o <<new>> ELSE <<new>>

-----------------------------------------------------------------------------
(* Tab 2: group fairness analysis (lines 143-155) *)

GroupsOf(frame) == {frame[i].Gender : i \in DOMAIN frame} \ {NaN}

Members(frame, g) == {i \in DOMAIN frame : frame[i].Gender = g}

\* df.groupby("Gender")["Selected"].mean(): the rate of g as the fraction
\* num/den.
GroupSr(frame) ==
    [g \in GroupsOf(frame) |->
        [num |-> Cardinality({i \in Members(frame, g) : frame[i].Selected = 1}),
         den |-> Cardinality(Members(frame, g))]]

\* group_sr.max(): a rate no other rate exceeds.
MaxSr(sr) ==
    LET g == CHOOSE g \in DOMAIN sr :
                \A h \in DOMAIN sr : sr[h].num * sr[g].den <= sr[g].num * sr[h].den
    IN  sr[g]

\* round(2) of n/d, in hundredths, ties to the even hundredth.
Round2(n, d) ==
    LET q == (100 * n) \div d
        r == (100 * n) % d
    IN  IF 2 * r < d THEN q
        ELSE IF 2 * r > d THEN q + 1
        ELSE IF q % 2 = 0 THEN q ELSE q + 1

\* (group_sr / max_sr).round(2).  Rates are floats: 0.0 / 0.0 is nan, and
\* nan rounds to nan.  x100 is the ratio in hundredths when it is a number.
Air(sr) ==
    LET m == MaxSr(sr)
    IN  [g \in DOMAIN sr |->
            IF m.num = 0 THEN [nan |-> TRUE, x100 |-> 0]
            ELSE [nan |-> FALSE,
                  x100 |-> Round2(sr[g].num * m.den, sr[g].den * m.num)]]

\* if ratio < 0.8: a comparison with nan is False.
Flagged(ratio) == ~ratio.nan /\ ratio.x100 < 80

NoReport == [g \in {} |-> 0]

-----------------------------------------------------------------------------
(* Tab 3: skills graph (lines 163-179) *)

\* The words a resume of the model is made of, and the form of each that
\* the case-insensitive pattern compares.
Tokens == {"Python", "python", "SQL", "and"}

Lower(w) ==
    CASE w = "Python" -> "python"
      [] w = "SQL" -> "sql"
      [] OTHER -> w

Vocabulary == {"python", "java", "sql", "html", "css", "react",
               "machine learning", "data analysis", "ai", "spring boot"}

\* re.findall(<vocabulary>, resume_text, re.I): the matched words as they
\* are spelled in the text, in order, repeats included.
RECURSIVE FindSkills(_)
FindSkills(text) ==
    IF text = <<>> THEN <<>>
    ELSE IF Lower(Head(text)) \in Vocabulary
         THEN <<Head(text)>> \o FindSkills(Tail(text))
         ELSE FindSkills(Tail(text))

\* nx.Graph(): an edge is the set of its end points, a self-loop a singleton.
EmptyGraph == [nodes |-> {}, edges |-> {}]

\* add_node for every match, add_edge(skills[i], skills[j]) for i < j.
BuildGraph(skills) ==
    [nodes |-> {skills[i] : i \in DOMAIN skills},
     edges |-> {{skills[p[1]], skills[p[2]]} :
                    p \in {q \in (DOMAIN skills) \X (DOMAIN skills) : q[1] < q[2]}}]

-----------------------------------------------------------------------------
(* The script after tab 1 *)

AllTabs == {"tab1", "tab2", "tab3"}

\* Lines 115-155, for the session and the sidebar this execution has reached.
\* An execution that would append row MaxRows + 1 is not taken.
Tab2 ==
    IF score' # None
    THEN /\ Len(results_csv) < MaxRows
         /\ df' = Concat(results_csv,
                         NewData(candidate_name', candidate_gender',
                                 candidate_experience', job_role', score'))
         /\ results_csv' = ToCsv(df')
         /\ group_sr' = GroupSr(df')
         /\ air' = Air(group_sr')
         /\ bias' = {g \in DOMAIN air' : Flagged(air'[g])}
    ELSE /\ UNCHANGED results_csv
         /\ df' = <<>>
         /\ group_sr' = NoReport
         /\ air' = NoReport
         /\ bias' = {}

\* Lines 160-181.
Tab3 ==
    LET skills == FindSkills(resume_text')
    IN  G' = IF resume_text' # <<>> /\ skills # <<>>
             THEN BuildGraph(skills) ELSE EmptyGraph

\* The execution runs to the last line.
Completes ==
    /\ tabs' = AllTabs
    /\ Tab2
    /\ Tab3

\* The execution stops in tab 1 with an uncaught exception.
Aborts ==
    /\ tabs' = {"tab1"}
    /\ UNCHANGED results_csv
    /\ df' = <<>>
    /\ group_sr' = NoReport
    /\ air' = NoReport
    /\ bias' = {}
    /\ G' = EmptyGraph

\* No button of tab 1 is pressed: lines 53 and 89 are False, and every
\* answer field returns the value it was given (line 87).
NoButton ==
    /\ UNCHANGED <<hasKey, questions, score, analyzed>>
    /\ outcome' = "idle"
    /\ feedback' = <<>>
    /\ Completes

-----------------------------------------------------------------------------
(* Executions, one per interaction *)

Init ==
    /\ hasKey \in BOOLEAN
    /\ candidate_name = ""
    /\ candidate_gender = "Prefer not to say"
    /\ candidate_experience = "Fresher"
    /\ job_role = ""
    /\ resume_text = <<>>
    /\ questions = <<>>
    /\ answers = <<>>
    /\ score = None
    /\ results_csv = <<>>
    /\ df = <<>>
    /\ outcome = "idle"
    /\ feedback = <<>>
    /\ tabs = AllTabs
    /\ group_sr = NoReport
    /\ air = NoReport
    /\ bias = {}
    /\ G = EmptyGraph
    /\ analyzed = 0

SetName(n) ==
    /\ n # candidate_name
    /\ candidate_name' = n
    /\ UNCHANGED <<candidate_gender, candidate_experience, job_role,
                   resume_text, answers>>
    /\ NoButton

SetGender(g) ==
    /\ g # candidate_gender
    /\ candidate_gender' = g
    /\ UNCHANGED <<candidate_name, candidate_experience, job_role,
                   resume_text, answers>>
    /\ NoButton

SetJobRole(r) ==
    /\ r # job_role
    /\ job_role' = r
    /\ UNCHANGED <<candidate_name, candidate_gender, candidate_experience,
                   resume_text, answers>>
    /\ NoButton

SetResume(t) ==
    /\ t # resume_text
    /\ resume_text' = t
    /\ UNCHANGED <<candidate_name, candidate_gender, candidate_experience,
                   job_role, answers>>
    /\ NoButton

\* Line 87: the edited answer field returns the new text.
EditAnswer(i, a) ==
    /\ i \in DOMAIN questions
    /\ a # answers[i]
    /\ answers' = [answers EXCEPT ![i] = a]
    /\ UNCHANGED sidebar
    /\ NoButton

\* The handler with the session lists cleared before the model is called, so
\* that a call that raises leaves them empty.
Generate_ClearsFirst(resp) ==
    /\ UNCHANGED <<hasKey, sidebar, score, analyzed>>
    /\ feedback' = <<>>
    /\ IF ~hasKey
       THEN /\ UNCHANGED <<questions, answers>>
            /\ outcome' = "NameError"
            /\ Aborts
       ELSE /\ IF resume_text # <<>> /\ job_role # ""
               THEN IF resp.raises
                    THEN /\ questions' = <<>>
                         /\ answers' = <<>>
                         /\ outcome' = "generate error"
                    ELSE /\ questions' = FindQuestions(resp.content)
                         /\ answers' = EmptyAnswers(questions')
                         /\ outcome' = "generate success"
               ELSE /\ UNCHANGED <<questions, answers>>
                    /\ outcome' = "generate warning"
            /\ Completes

\* Lines 53-82.  resp is what client.chat.completions.create does: it
\* raises, or it returns resp.content.
Generate(resp) ==
    /\ UNCHANGED <<hasKey, sidebar, score, analyzed>>
    /\ feedback' = <<>>
    /\ IF ~hasKey
       THEN \* line 18 never ran, `client` is unbound: NameError at line 54
            /\ UNCHANGED <<questions, answers>>
            /\ outcome' = "NameError"
            /\ Aborts
       ELSE /\ IF resume_text # <<>> /\ job_role # ""
               THEN IF resp.raises
                    THEN /\ UNCHANGED <<questions, answers>>
                         /\ outcome' = "generate error"
                    ELSE /\ questions' = FindQuestions(resp.content)
                         /\ answers' = EmptyAnswers(questions')
                         /\ outcome' = "generate success"
               ELSE /\ UNCHANGED <<questions, answers>>
                    /\ outcome' = "generate warning"
            /\ Completes

\* Lines 89-110.  The button exists only while there are questions.
Analyze(resp) ==
    /\ questions # <<>>
    /\ UNCHANGED <<hasKey, sidebar, questions, answers>>
    /\ IF ~hasKey \/ resp.raises
       THEN /\ UNCHANGED <<score, analyzed>>
            /\ feedback' = <<>>
            /\ outcome' = "analyze error"
       ELSE /\ feedback' = Strip(resp.content)
            /\ score' = ExtractScore(feedback')
            /\ analyzed' = analyzed + 1
            /\ outcome' = "analyze success"
    /\ Completes

-----------------------------------------------------------------------------
(* Spec: the session life cycle *)

Raises == [raises |-> TRUE, content |-> <<>>]
Returns(c) == [raises |-> FALSE, content |-> c]

Names == {"", "Ann", "NA"}
Genders == {"Prefer not to say", "Male", "Female"}
JobRoles == {"", "Data Analyst"}
Resumes == {<<>>, <<"Python", "and", "SQL">>}
AnswerTexts == {"", "an answer"}

GenLines == {[numbered |-> TRUE, body |-> "a question"],
             [numbered |-> FALSE, body |-> "a remark"]}
GenResponses == {Raises} \cup {Returns(t) : t \in SeqsUpTo(GenLines, MaxLines)}

Feedbacks == {<<"6", "9">>, <<"7", "0">>, <<"1", "5", "0", "!">>,
              <<"o", "k", NL, "8", "0">>}
AnalyzeResponses == {Raises} \cup {Returns(c) : c \in Feedbacks}

Next ==
    \/ \E n \in Names : SetName(n)
    \/ \E g \in Genders : SetGender(g)
    \/ \E r \in JobRoles : SetJobRole(r)
    \/ \E t \in Resumes : SetResume(t)
    \/ \E resp \in GenResponses : Generate(resp)
    \/ \E i \in 1..MaxLines, a \in AnswerTexts : EditAnswer(i, a)
    \/ \E resp \in AnalyzeResponses : Analyze(resp)

Spec == Init /\ [][Next]_vars

-----------------------------------------------------------------------------
(* ScoreSpec: one candidate, analysed on every response text over Chars *)

Chars == {"7", "x", NL}
OneQuestion == <<[numbered |-> TRUE, body |-> "a question"]>>

NextScore ==
    \/ SetJobRole("Data Analyst")
    \/ SetResume(<<"Python">>)
    \/ Generate(Returns(OneQuestion))
    \/ \E c \in SeqsUpTo(Chars, MaxLen) : Analyze(Returns(c))

ScoreSpec == Init /\ [][NextScore]_vars

-----------------------------------------------------------------------------
(* GraphSpec: the skills graph of every resume over Tokens *)

NextGraph == \E t \in SeqsUpTo(Tokens, MaxTokens) : SetResume(t)

GraphSpec == Init /\ [][NextGraph]_vars

-----------------------------------------------------------------------------
(* Properties *)

Failures == {"generate error", "generate warning", "analyze error", "NameError"}

IsPrefix(s, t) ==
    /\ Len(s) <= Len(t)
    /\ \A i \in 1..Len(s) : t[i] = s[i]

\* Fractions a = [num, den] with positive denominators.
FracLeq(a, b) == a.num * b.den <= b.num * a.den

HasMaxRate(g) == \A h \in DOMAIN group_sr : FracLeq(group_sr[h], group_sr[g])

\* The first line of a text and the decimal value of a digit string, stated
\* by position.
LineEnd(s) ==
    IF \E k \in 1..Len(s) : s[k] = NL
    THEN (CHOOSE k \in 1..Len(s) :
              s[k] = NL /\ \A m \in 1..(k - 1) : s[m] # NL) - 1
    ELSE Len(s)

RECURSIVE Pow10(_)
Pow10(n) == IF n = 0 THEN 1 ELSE 10 * Pow10(n - 1)

RECURSIVE WeightedSum(_, _, _)
WeightedSum(s, i, j) ==
    IF i > j THEN 0
    ELSE DigitVal(s[i]) * Pow10(j - i) + WeightedSum(s, i + 1, j)

\* C1: the number of rows of the result store equals the number of analyze
\* actions that completed successfully.
C1_OneRowPerAnalysis == Len(results_csv) = analyzed

\* C2: after a successful generate every answer is empty and no score is set.
C2_GenerateResetsSession ==
    outcome = "generate success" =>
        /\ \A i \in DOMAIN answers : answers[i] = ""
        /\ score = None

\* C3: an execution whose generate or analyze action fails (the model call
\* raises, the resume or the job role is empty, or the run stops on the
\* unbound client) leaves questions, answers and score as they were.
C3_FailureKeepsSession ==
    [][outcome' \in Failures => UNCHANGED <<questions, answers, score>>]_vars

C3_Witness ==
    /\ outcome \in {"generate error", "analyze error"}
    /\ questions # <<>>
    /\ \E i \in DOMAIN answers : answers[i] # ""
    /\ score # None

\* C4: every execution, also one in which generate or analyze is pressed
\* without an API key, renders the fairness dashboard and the skills graph.
C4_NeverAborts == {"tab2", "tab3"} \subseteq tabs

\* C5: every row of the result store has Selected = 1 if Score >= 70 and
\* Selected = 0 otherwise.
C5_SelectedIffPass ==
    \A i \in DOMAIN results_csv :
        results_csv[i].Selected = (IF results_csv[i].Score >= 70 THEN 1 ELSE 0)

C5_Witness ==
    /\ \E i \in DOMAIN results_csv :
           results_csv[i].Score = 150 /\ results_csv[i].Selected = 1
    /\ \E i \in DOMAIN results_csv :
           results_csv[i].Score = 69 /\ results_csv[i].Selected = 0

\* C6: in the report of a non-empty store every AIR is a number between 0
\* and 1, a group with the maximum selection rate has AIR exactly 1.0 and
\* is not flagged, and a single group has AIR 1.0.
C6_MaxGroupHasAirOne ==
    \A g \in DOMAIN group_sr :
        /\ ~air[g].nan
        /\ air[g].x100 \in 0..100
        /\ HasMaxRate(g) => air[g].x100 = 100 /\ g \notin bias
        /\ DOMAIN group_sr = {g} => air[g].x100 = 100

\* C7: a group whose selection rate is 0 has AIR 0.0 and is flagged as
\* potential bias, whatever the other rates are.
C7_ZeroRateFlagged ==
    \A g \in DOMAIN group_sr :
        group_sr[g].num = 0 =>
            /\ ~air[g].nan
            /\ air[g].x100 = 0
            /\ g \in bias

\* C8: every write of the result store keeps the rows it held, unchanged and
\* in order, and adds rows only at the end.
C8_AppendOnly == [][IsPrefix(results_csv, results_csv')]_vars

\* C9: the skills graph of a text with recognised skills has the distinct
\* matches as nodes and exactly the edges between two distinct nodes.
C9_CompleteGraph ==
    LET skills == FindSkills(resume_text)
    IN  (tabs = AllTabs /\ skills # <<>>) =>
            /\ G.nodes = {skills[i] : i \in DOMAIN skills}
            /\ G.edges = {{u, v} : u \in G.nodes, v \in G.nodes} \
                         {{u} : u \in G.nodes}

\* C10: after a successful analyze the score is the decimal value of the
\* first maximal run of digits on the first line of the feedback, whatever
\* its size, and 75 when the first line has no digit.
C10_ScoreIsFirstDigitRun ==
    outcome = "analyze success" =>
        LET n == LineEnd(feedback)
            digitAt == {k \in 1..n : feedback[k] \in Digits}
        IN  IF digitAt = {}
            THEN score = 75
            ELSE \E i \in digitAt, j \in digitAt :
                    /\ i <= j
                    /\ \A k \in 1..(i - 1) : k \notin digitAt
                    /\ \A k \in i..j : k \in digitAt
                    /\ (j + 1) \notin digitAt
                    /\ score = WeightedSum(feedback, i, j)

C10_Witness ==
    /\ outcome = "analyze success"
    /\ feedback = <<"x", NL, "7">>
    /\ score = 75

====
